---- MODULE Spec2Model ----
(***************************************************************************)
(* SerialBuffer (.gitlab-ci/bare-metal/serial_buffer.py): a reader thread  *)
(* pumps chunks of bytes from a serial device, or from a file another      *)
(* process appends to, into byte_queue; a second thread logs the chunks to *)
(* the output file (device mode only), splits the byte stream into lines,  *)
(* prints each line and puts it into line_queue; the program takes the     *)
(* lines out with get_line.                                                *)
(*                                                                         *)
(* Bytes are numbers 0..255 and decoded text is a sequence of code points. *)
(* The instance's prefix and the time stamp of a printed line are not      *)
(* modelled: no control flow depends on them.                              *)
(***************************************************************************)
EXTENDS Integers, Sequences, FiniteSets, TLC

\* Bounds of the model.
MaxReads == 3    \* successful reads of the serial device
MaxFile == 3     \* bytes the other process appends to the file
MaxBacklog == 3  \* chunks handed to the lines thread on its own
MaxChunkLen == 2 \* bytes in one of those chunks

\* b'\n'[0]
NL == 10
\* U+FFFD, what decode(errors="replace") puts in place of a malformed sequence
Replacement == 65533

\* The bytes the device or the file may hold: newline, 'a', and the two bytes
\* of the UTF-8 encoding of U+00E9 (195 169), each of which alone is malformed.
SrcBytes == {NL, 97, 195, 169}

\* What one serial.read() returns: one byte, or nothing when the timeout expires.
ReadResults == {<< >>} \cup {<<b>> : b \in SrcBytes}

\* "Serial thread reading from %s\n", encoded; shortened to its first byte and
\* its newline.
Greet == <<83, NL>>

\* Items of the two queues: a chunk of bytes or a decoded line, or the sentinel.
Item(d) == [eos |-> FALSE, data |-> d]
Sentinel == [eos |-> TRUE, data |-> << >>]

VARIABLES
    dev,         \* self.dev is set (device mode); otherwise the file is replayed
    f,           \* the contents of the file self.filename
    fpos,        \* the read position of self.f (file mode)
    byte_queue,  \* self.byte_queue
    line_queue,  \* self.line_queue
    rpc,         \* where read_thread is: "greet", "loop", "sleep", "exit", "done"
    lpc,         \* where lines_thread is: "get", "write", "scan", "print", "put",
                 \*   "join", "putsent", "exit", "done", "crashed"
    bytes,       \* serial_lines_thread_loop: the rest of the chunk being scanned
    line,        \* serial_lines_thread_loop: the line being assembled
    console,     \* what has been printed to stdout, in order
    cpc,         \* where the caller of get_line is: "call", "join"
    returned,    \* history: the values get_line has returned, in order
    src,         \* history: the chunks the device or file reads have returned
    bq_hist,     \* history: everything put into byte_queue, in order
    lq_hist,     \* history: everything put into line_queue, in order
    deq          \* history: everything serial_lines_thread_loop took out of byte_queue

vars == <<dev, f, fpos, byte_queue, line_queue, rpc, lpc, bytes, line, console,
          cpc, returned, src, bq_hist, lq_hist, deq>>

----------------------------------------------------------------------------
\* Pure helpers.

\* Mutant of Put: a last-in, first-out queue (queue.LifoQueue).
Put_Lifo(q, x) == <<x>> \o q

\* queue.Queue.put and queue.Queue.get: first in, first out.
Put(q, x) == Append(q, x)
Front(q) == Head(q)
Rest(q) == Tail(q)

IsNewline(b) == b = NL

\* bytes.decode("utf-8", errors="replace"), for bytes below 0xE0: an ASCII byte
\* is itself, a lead byte 0xC2..0xDF followed by a continuation byte 0x80..0xBF
\* is one code point, and any other byte is replaced by U+FFFD on its own.
IsLead2(b) == b >= 194 /\ b <= 223
IsCont(b) == b >= 128 /\ b <= 191

\* Mutant of Decode: malformed bytes are dropped (errors="ignore").
RECURSIVE Decode_Ignore(_)
Decode_Ignore(s) ==
    IF s = << >> THEN << >>
    ELSE LET b == Head(s) IN
         IF b < 128 THEN <<b>> \o Decode_Ignore(Tail(s))
         ELSE IF IsLead2(b) /\ Len(s) >= 2 /\ IsCont(s[2])
              THEN <<(b - 192) * 64 + (s[2] - 128)>>
                       \o Decode_Ignore(SubSeq(s, 3, Len(s)))
              ELSE Decode_Ignore(Tail(s))

RECURSIVE Decode(_)
Decode(s) ==
    IF s = << >> THEN << >>
    ELSE LET b == Head(s) IN
         IF b < 128 THEN <<b>> \o Decode(Tail(s))
         ELSE IF IsLead2(b) /\ Len(s) >= 2 /\ IsCont(s[2])
              THEN <<(b - 192) * 64 + (s[2] - 128)>> \o Decode(SubSeq(s, 3, Len(s)))
              ELSE <<Replacement>> \o Decode(Tail(s))

\* BufferedReader.readline() at position pos of a file holding file: the bytes
\* up to and including the next newline, or up to the end of the file when no
\* newline follows; empty at the end of the file.
NextNewline(file, pos) ==
    LET S == {k \in (pos + 1)..Len(file) : file[k] = NL}
    IN IF S = {} THEN Len(file) ELSE CHOOSE k \in S : \A j \in S : k <= j

ReadLine(file, pos) == SubSeq(file, pos + 1, NextNewline(file, pos))

\* Mutant of AfterGet: the chunk is written to the file whatever the mode.
AfterGet_AlwaysWrite == "write"

\* Mutant of AfterGet: the chunk is scanned without being written to the file.
AfterGet_SkipsWrite == "scan"

\* Where the lines thread goes once a chunk is out of the queue.
AfterGet == IF dev THEN "write" ELSE "scan"

----------------------------------------------------------------------------
Init ==
    /\ dev \in BOOLEAN
    /\ f = << >>
    /\ fpos = 0
    /\ byte_queue = << >>
    /\ line_queue = << >>
    /\ rpc = "greet"
    /\ lpc = "get"
    /\ bytes = << >>
    /\ line = << >>
    /\ console = << >>
    /\ cpc = "call"
    /\ returned = << >>
    /\ src = << >>
    /\ bq_hist = << >>
    /\ lq_hist = << >>
    /\ deq = << >>

----------------------------------------------------------------------------
\* read_thread: serial_read_thread_loop (device) or serial_file_read_thread_loop.

\* Mutant of ReadGreet: no greeting is put before the loop.
ReadGreet_Skipped ==
    /\ rpc = "greet"
    /\ rpc' = "loop"
    /\ UNCHANGED <<dev, f, fpos, byte_queue, line_queue, lpc, bytes, line, console,
                   cpc, returned, src, bq_hist, lq_hist, deq>>

\* The greeting is put first, by either loop (lines 63-64 and 77-78).
ReadGreet ==
    /\ rpc = "greet"
    /\ byte_queue' = Put(byte_queue, Item(Greet))
    /\ bq_hist' = Append(bq_hist, Item(Greet))
    /\ rpc' = "loop"
    /\ UNCHANGED <<dev, f, fpos, line_queue, lpc, bytes, line, console, cpc,
                   returned, src, lq_hist, deq>>

\* Mutant of SerialRead: byte_queue holds one item at most (Queue(maxsize=1))
\* and put blocks while it is full.
SerialRead_Bounded ==
    /\ dev
    /\ rpc = "loop"
    /\ Len(src) < MaxReads
    /\ Len(byte_queue) < 1
    /\ \E c \in ReadResults :
        /\ src' = Append(src, c)
        /\ byte_queue' = Put(byte_queue, Item(c))
        /\ bq_hist' = Append(bq_hist, Item(c))
    /\ UNCHANGED <<dev, f, fpos, line_queue, rpc, lpc, bytes, line, console, cpc,
                   returned, lq_hist, deq>>

\* self.byte_queue.put(self.serial.read())
SerialRead ==
    /\ dev
    /\ rpc = "loop"
    /\ Len(src) < MaxReads
    /\ \E c \in ReadResults :
        /\ src' = Append(src, c)
        /\ byte_queue' = Put(byte_queue, Item(c))
        /\ bq_hist' = Append(bq_hist, Item(c))
    /\ UNCHANGED <<dev, f, fpos, line_queue, rpc, lpc, bytes, line, console, cpc,
                   returned, lq_hist, deq>>

\* Mutant of SerialReadError: the break is missing, the loop goes on.
SerialReadError_NoBreak ==
    /\ dev
    /\ rpc = "loop"
    /\ console' = Append(console, [from |-> "read", text |-> << >>])
    /\ byte_queue' = Put(byte_queue, Sentinel)
    /\ bq_hist' = Append(bq_hist, Sentinel)
    /\ rpc' = "loop"
    /\ UNCHANGED <<dev, f, fpos, line_queue, lpc, bytes, line, cpc, returned,
                   src, lq_hist, deq>>

\* serial.read() raises: the error is printed, the sentinel is put, break.
SerialReadError ==
    /\ dev
    /\ rpc = "loop"
    /\ console' = Append(console, [from |-> "read", text |-> << >>])
    /\ byte_queue' = Put(byte_queue, Sentinel)
    /\ bq_hist' = Append(bq_hist, Sentinel)
    /\ rpc' = "exit"
    /\ UNCHANGED <<dev, f, fpos, line_queue, lpc, bytes, line, cpc, returned,
                   src, lq_hist, deq>>

\* The thread function returns: read_thread is no longer alive.
ReadExit ==
    /\ rpc = "exit"
    /\ rpc' = "done"
    /\ UNCHANGED <<dev, f, fpos, byte_queue, line_queue, lpc, bytes, line, console,
                   cpc, returned, src, bq_hist, lq_hist, deq>>

\* Mutant of FileRead: the read position does not move on (the file is read
\* from where the last read began).
FileRead_NoAdvance ==
    /\ ~dev
    /\ rpc = "loop"
    /\ ReadLine(f, fpos) # << >>
    /\ fpos' = fpos
    /\ src' = Append(src, ReadLine(f, fpos))
    /\ byte_queue' = Put(byte_queue, Item(ReadLine(f, fpos)))
    /\ bq_hist' = Append(bq_hist, Item(ReadLine(f, fpos)))
    /\ UNCHANGED <<dev, f, line_queue, rpc, lpc, bytes, line, console, cpc,
                   returned, lq_hist, deq>>

\* line = self.f.readline(); if line: self.byte_queue.put(line)
FileRead ==
    /\ ~dev
    /\ rpc = "loop"
    /\ ReadLine(f, fpos) # << >>
    /\ fpos' = fpos + Len(ReadLine(f, fpos))
    /\ src' = Append(src, ReadLine(f, fpos))
    /\ byte_queue' = Put(byte_queue, Item(ReadLine(f, fpos)))
    /\ bq_hist' = Append(bq_hist, Item(ReadLine(f, fpos)))
    /\ UNCHANGED <<dev, f, line_queue, rpc, lpc, bytes, line, console, cpc,
                   returned, lq_hist, deq>>

\* Mutant of FileReadMiss: the end of the file is taken for the end of the
\* stream, as a failed device read is.
FileReadMiss_Eof ==
    /\ ~dev
    /\ rpc = "loop"
    /\ ReadLine(f, fpos) = << >>
    /\ byte_queue' = Put(byte_queue, Sentinel)
    /\ bq_hist' = Append(bq_hist, Sentinel)
    /\ rpc' = "exit"
    /\ UNCHANGED <<dev, f, fpos, line_queue, lpc, bytes, line, console, cpc,
                   returned, src, lq_hist, deq>>

\* else: time.sleep(0.1)
FileReadMiss ==
    /\ ~dev
    /\ rpc = "loop"
    /\ ReadLine(f, fpos) = << >>
    /\ rpc' = "sleep"
    /\ UNCHANGED <<dev, f, fpos, byte_queue, line_queue, lpc, bytes, line, console,
                   cpc, returned, src, bq_hist, lq_hist, deq>>

FileWake ==
    /\ rpc = "sleep"
    /\ rpc' = "loop"
    /\ UNCHANGED <<dev, f, fpos, byte_queue, line_queue, lpc, bytes, line, console,
                   cpc, returned, src, bq_hist, lq_hist, deq>>

\* The other process appends a byte to the file being replayed.
AppendFile ==
    /\ ~dev
    /\ Len(f) < MaxFile
    /\ \E b \in SrcBytes : f' = Append(f, b)
    /\ UNCHANGED <<dev, fpos, byte_queue, line_queue, rpc, lpc, bytes, line,
                   console, cpc, returned, src, bq_hist, lq_hist, deq>>

ReadThread ==
    \/ ReadGreet
    \/ SerialRead
    \/ SerialReadError
    \/ ReadExit
    \/ FileRead
    \/ FileReadMiss
    \/ FileWake

----------------------------------------------------------------------------
\* lines_thread: serial_lines_thread_loop.

\* Mutant of LinesGet: the accumulator is emptied for every chunk (line =
\* bytearray() inside the while loop).
LinesGet_ResetsLine ==
    /\ lpc = "get"
    /\ byte_queue # << >>
    /\ byte_queue' = Rest(byte_queue)
    /\ deq' = Append(deq, Front(byte_queue))
    /\ line' = << >>
    /\ IF Front(byte_queue).eos
       THEN lpc' = "join" /\ UNCHANGED bytes
       ELSE lpc' = AfterGet /\ bytes' = Front(byte_queue).data
    /\ UNCHANGED <<dev, f, fpos, line_queue, rpc, console, cpc, returned,
                   src, bq_hist, lq_hist>>

\* bytes = self.byte_queue.get(block=True); if bytes == self.sentinel: ...
LinesGet ==
    /\ lpc = "get"
    /\ byte_queue # << >>
    /\ byte_queue' = Rest(byte_queue)
    /\ deq' = Append(deq, Front(byte_queue))
    /\ IF Front(byte_queue).eos
       THEN lpc' = "join" /\ UNCHANGED bytes
       ELSE lpc' = AfterGet /\ bytes' = Front(byte_queue).data
    /\ UNCHANGED <<dev, f, fpos, line_queue, rpc, line, console, cpc, returned,
                   src, bq_hist, lq_hist>>

\* Mutant of LinesJoin: the sentinel is passed on without joining read_thread.
LinesJoin_NoWait ==
    /\ lpc = "join"
    /\ lpc' = "putsent"
    /\ UNCHANGED <<dev, f, fpos, byte_queue, line_queue, rpc, bytes, line, console,
                   cpc, returned, src, bq_hist, lq_hist, deq>>

\* self.read_thread.join()
LinesJoin ==
    /\ lpc = "join"
    /\ rpc = "done"
    /\ lpc' = "putsent"
    /\ UNCHANGED <<dev, f, fpos, byte_queue, line_queue, rpc, bytes, line, console,
                   cpc, returned, src, bq_hist, lq_hist, deq>>

\* Mutant of LinesPutSentinel: what is left in the accumulator is put as a last
\* line before the sentinel.
LinesPutSentinel_FlushesPartial ==
    /\ lpc = "putsent"
    /\ line_queue' = IF line = << >> THEN Put(line_queue, Sentinel)
                     ELSE Put(Put(line_queue, Item(Decode(line))), Sentinel)
    /\ lq_hist' = IF line = << >> THEN Append(lq_hist, Sentinel)
                  ELSE Append(Append(lq_hist, Item(Decode(line))), Sentinel)
    /\ lpc' = "exit"
    /\ UNCHANGED <<dev, f, fpos, byte_queue, rpc, bytes, line, console, cpc,
                   returned, src, bq_hist, deq>>

\* self.line_queue.put(self.sentinel); break
LinesPutSentinel ==
    /\ lpc = "putsent"
    /\ line_queue' = Put(line_queue, Sentinel)
    /\ lq_hist' = Append(lq_hist, Sentinel)
    /\ lpc' = "exit"
    /\ UNCHANGED <<dev, f, fpos, byte_queue, rpc, bytes, line, console, cpc,
                   returned, src, bq_hist, deq>>

\* The thread function returns: lines_thread is no longer alive.
LinesExit ==
    /\ lpc = "exit"
    /\ lpc' = "done"
    /\ UNCHANGED <<dev, f, fpos, byte_queue, line_queue, rpc, bytes, line, console,
                   cpc, returned, src, bq_hist, lq_hist, deq>>

\* Mutant of LinesWrite: each write replaces the file's contents.
LinesWrite_Truncating ==
    /\ lpc = "write"
    /\ f' = bytes
    /\ lpc' = "scan"
    /\ UNCHANGED <<dev, fpos, byte_queue, line_queue, rpc, bytes, line, console,
                   cpc, returned, src, bq_hist, lq_hist, deq>>

\* self.f.write(bytes); self.f.flush()
LinesWrite ==
    /\ lpc = "write"
    /\ f' = f \o bytes
    /\ lpc' = "scan"
    /\ UNCHANGED <<dev, fpos, byte_queue, line_queue, rpc, bytes, line, console,
                   cpc, returned, src, bq_hist, lq_hist, deq>>

\* Mutant of LinesWriteFail: the failure is caught and the sentinel passed on
\* before the thread ends.
LinesWriteFail_PutsSentinel ==
    /\ lpc = "write"
    /\ f' \in {f, f \o bytes}
    /\ line_queue' = Put(line_queue, Sentinel)
    /\ lq_hist' = Append(lq_hist, Sentinel)
    /\ lpc' = "crashed"
    /\ UNCHANGED <<dev, fpos, byte_queue, rpc, bytes, line, console,
                   cpc, returned, src, bq_hist, deq>>

\* write or flush raises (disk full, I/O error): nothing catches it, the thread
\* dies. The chunk may or may not have reached the file.
LinesWriteFail ==
    /\ lpc = "write"
    /\ f' \in {f, f \o bytes}
    /\ lpc' = "crashed"
    /\ UNCHANGED <<dev, fpos, byte_queue, line_queue, rpc, bytes, line, console,
                   cpc, returned, src, bq_hist, lq_hist, deq>>

\* Mutant of LinesByte: the newline is tested before the byte is appended, and
\* is left out of the line.
LinesByte_DropsNewline ==
    /\ lpc = "scan"
    /\ bytes # << >>
    /\ bytes' = Tail(bytes)
    /\ IF IsNewline(Head(bytes))
       THEN line' = Decode(line) /\ lpc' = "print"
       ELSE line' = Append(line, Head(bytes)) /\ lpc' = "scan"
    /\ UNCHANGED <<dev, f, fpos, byte_queue, line_queue, rpc, console, cpc,
                   returned, src, bq_hist, lq_hist, deq>>

\* for b in bytes: line.append(b); if b == b'\n'[0]: line = line.decode(...)
LinesByte ==
    /\ lpc = "scan"
    /\ bytes # << >>
    /\ bytes' = Tail(bytes)
    /\ IF IsNewline(Head(bytes))
       THEN line' = Decode(Append(line, Head(bytes))) /\ lpc' = "print"
       ELSE line' = Append(line, Head(bytes)) /\ lpc' = "scan"
    /\ UNCHANGED <<dev, f, fpos, byte_queue, line_queue, rpc, console, cpc,
                   returned, src, bq_hist, lq_hist, deq>>

\* The for loop is over: back to the top of the while loop.
LinesChunkDone ==
    /\ lpc = "scan"
    /\ bytes = << >>
    /\ lpc' = "get"
    /\ UNCHANGED <<dev, f, fpos, byte_queue, line_queue, rpc, bytes, line, console,
                   cpc, returned, src, bq_hist, lq_hist, deq>>

\* Mutant of LinesPrint: the line is not printed.
LinesPrint_Silent ==
    /\ lpc = "print"
    /\ lpc' = "put"
    /\ UNCHANGED <<dev, f, fpos, byte_queue, line_queue, rpc, bytes, line, console,
                   cpc, returned, src, bq_hist, lq_hist, deq>>

\* print("{endc}{time} {prefix}{line}".format(...), flush=True, end='')
LinesPrint ==
    /\ lpc = "print"
    /\ console' = Append(console, [from |-> "lines", text |-> line])
    /\ lpc' = "put"
    /\ UNCHANGED <<dev, f, fpos, byte_queue, line_queue, rpc, bytes, line, cpc,
                   returned, src, bq_hist, lq_hist, deq>>

\* Mutant of LinesPut: the accumulator is not reset.
LinesPut_KeepsLine ==
    /\ lpc = "put"
    /\ line_queue' = Put(line_queue, Item(line))
    /\ lq_hist' = Append(lq_hist, Item(line))
    /\ lpc' = "scan"
    /\ UNCHANGED <<dev, f, fpos, byte_queue, rpc, bytes, line, console, cpc,
                   returned, src, bq_hist, deq>>

\* self.line_queue.put(line); line = bytearray()
LinesPut ==
    /\ lpc = "put"
    /\ line_queue' = Put(line_queue, Item(line))
    /\ lq_hist' = Append(lq_hist, Item(line))
    /\ line' = << >>
    /\ lpc' = "scan"
    /\ UNCHANGED <<dev, f, fpos, byte_queue, rpc, bytes, console, cpc, returned,
                   src, bq_hist, deq>>

LinesThread ==
    \/ LinesGet
    \/ LinesJoin
    \/ LinesPutSentinel
    \/ LinesExit
    \/ LinesWrite
    \/ LinesWriteFail
    \/ LinesByte
    \/ LinesChunkDone
    \/ LinesPrint
    \/ LinesPut

----------------------------------------------------------------------------
\* The program: get_line, called again and again.

\* line = self.line_queue.get(); if line == self.sentinel: ... ; return line
GetLine ==
    /\ cpc = "call"
    /\ line_queue # << >>
    /\ line_queue' = Rest(line_queue)
    /\ IF Front(line_queue).eos
       THEN cpc' = "join" /\ UNCHANGED returned
       ELSE cpc' = "call" /\ returned' = Append(returned, Front(line_queue))
    /\ UNCHANGED <<dev, f, fpos, byte_queue, rpc, lpc, bytes, line, console, src,
                   bq_hist, lq_hist, deq>>

\* Mutant of GetLineJoin: the sentinel is returned without joining lines_thread.
GetLineJoin_NoJoin ==
    /\ cpc = "join"
    /\ returned' = Append(returned, Sentinel)
    /\ cpc' = "call"
    /\ UNCHANGED <<dev, f, fpos, byte_queue, line_queue, rpc, lpc, bytes, line,
                   console, src, bq_hist, lq_hist, deq>>

\* self.lines_thread.join(); return line
GetLineJoin ==
    /\ cpc = "join"
    /\ lpc \in {"done", "crashed"}
    /\ returned' = Append(returned, Sentinel)
    /\ cpc' = "call"
    /\ UNCHANGED <<dev, f, fpos, byte_queue, line_queue, rpc, lpc, bytes, line,
                   console, src, bq_hist, lq_hist, deq>>

Caller == GetLine \/ GetLineJoin

----------------------------------------------------------------------------
Next ==
    \/ ReadGreet
    \/ SerialRead
    \/ SerialReadError
    \/ ReadExit
    \/ FileRead
    \/ FileReadMiss
    \/ FileWake
    \/ AppendFile
    \/ LinesGet
    \/ LinesJoin
    \/ LinesPutSentinel
    \/ LinesExit
    \/ LinesWrite
    \/ LinesWriteFail
    \/ LinesByte
    \/ LinesChunkDone
    \/ LinesPrint
    \/ LinesPut
    \/ GetLine
    \/ GetLineJoin

Spec == Init /\ [][Next]_vars

\* The three threads are scheduled by the operating system: each one that can
\* take a step eventually does. Nothing obliges the other process to append.
FairSpec ==
    /\ Init
    /\ [][Next]_vars
    /\ WF_vars(ReadThread)
    /\ WF_vars(LinesThread)
    /\ WF_vars(Caller)

----------------------------------------------------------------------------
\* serial_lines_thread_loop on its own: byte_queue holds, from the start, any
\* sequence of chunks a source may have handed over (empty chunks, chunks with
\* several newlines, lines cut anywhere), and only the lines thread runs.
BacklogChunks == UNION {[1..n -> {NL, 97}] : n \in 0..MaxChunkLen}

Backlogs == UNION {[1..n -> {Item(c) : c \in BacklogChunks}] : n \in 0..MaxBacklog}

InitBacklog ==
    /\ dev \in BOOLEAN
    /\ f = << >>
    /\ fpos = 0
    /\ byte_queue \in Backlogs
    /\ bq_hist = byte_queue
    /\ src = [i \in 1..Len(byte_queue) |-> byte_queue[i].data]
    /\ line_queue = << >>
    /\ rpc = "loop"
    /\ lpc = "get"
    /\ bytes = << >>
    /\ line = << >>
    /\ console = << >>
    /\ cpc = "call"
    /\ returned = << >>
    /\ lq_hist = << >>
    /\ deq = << >>

NextLines ==
    \/ LinesGet
    \/ LinesWrite
    \/ LinesWriteFail
    \/ LinesByte
    \/ LinesChunkDone
    \/ LinesPrint
    \/ LinesPut

AssemblerSpec == InitBacklog /\ [][NextLines]_vars

----------------------------------------------------------------------------
\* Operators the properties below are stated with.

RECURSIVE Flatten(_)
Flatten(ss) == IF ss = << >> THEN << >> ELSE Head(ss) \o Flatten(Tail(ss))

IsPrefix(s, t) == Len(s) <= Len(t) /\ SubSeq(t, 1, Len(s)) = s

\* The payloads of a history, the sentinel left out.
NotEos(x) == ~x.eos
Payloads(h) == LET g == SelectSeq(h, NotEos) IN [i \in 1..Len(g) |-> g[i].data]

\* The index of the last newline of s, 0 when it has none.
LastNewline(s) ==
    LET S == {k \in 1..Len(s) : s[k] = NL}
    IN IF S = {} THEN 0 ELSE CHOOSE k \in S : \A j \in S : j <= k

\* s without its trailing unterminated partial line, and that partial line.
UpToLastNewline(s) == SubSeq(s, 1, LastNewline(s))
AfterLastNewline(s) == SubSeq(s, LastNewline(s) + 1, Len(s))

\* The newline-terminated lines of s, each with its newline, in order.
RECURSIVE SplitLines(_)
SplitLines(s) ==
    LET k == NextNewline(s, 0)
    IN IF s = << >> \/ s[k] # NL THEN << >>
       ELSE <<SubSeq(s, 1, k)>> \o SplitLines(SubSeq(s, k + 1, Len(s)))

\* The byte stream the reader thread hands on: the greeting, then what it read.
SourceStream == Greet \o Flatten(src)

\* The lines thread is between two chunks: every item it took out is finished.
AllDequeuedProcessed == lpc \in {"get", "join", "putsent", "exit", "done"}

\* Both threads have returned and get_line has returned the sentinel.
ShutDown ==
    /\ rpc = "done"
    /\ lpc = "done"
    /\ \E i \in 1..Len(returned) : returned[i].eos

----------------------------------------------------------------------------
\* C1 as claimed: whenever the lines thread has finished the chunks it took
\* out of byte_queue, the lines put into line_queue, each followed by a newline,
\* concatenate to the bytes of those chunks minus the trailing partial line.
C1_RejoinedLinesEqualInput ==
    AllDequeuedProcessed =>
        Flatten([i \in 1..Len(Payloads(lq_hist)) |-> Append(Payloads(lq_hist)[i], NL)])
            = UpToLastNewline(Flatten(Payloads(deq)))

\* C1 amended: whenever the lines thread has finished the chunks it took out of
\* byte_queue, the lines put into line_queue, each of which already ends with
\* its newline, concatenate to the decoding (malformed bytes replaced) of the
\* bytes of those chunks minus the trailing partial line, which is what the
\* accumulator still holds.
C1_LinesEqualDecodedInput ==
    AllDequeuedProcessed =>
        /\ Flatten(Payloads(lq_hist)) = Decode(UpToLastNewline(Flatten(Payloads(deq))))
        /\ line = AfterLastNewline(Flatten(Payloads(deq)))

\* C1 witness: the lines thread has stopped after the sentinel, having put
\* several lines, one of them with a replaced byte, and dropped a partial line.
C1_Witness ==
    /\ lpc = "done"
    /\ Len(Payloads(lq_hist)) >= 2
    /\ \E i \in 1..Len(lq_hist) : \E k \in 1..Len(lq_hist[i].data) :
           lq_hist[i].data[k] = Replacement
    /\ AfterLastNewline(Flatten(Payloads(deq))) # << >>

\* C2 as claimed: once get_line has returned the sentinel, the next call finds
\* the sentinel at the head of line_queue: it returns it again, without blocking.
C2_EosReturnedAgain ==
    (cpc = "call" /\ \E i \in 1..Len(returned) : returned[i].eos) =>
        (line_queue # << >> /\ Front(line_queue).eos)

\* C2 amended: end-of-stream is terminal: get_line returns the sentinel at most
\* once, as the last value it ever returns; from then on line_queue is empty,
\* both threads have returned, so nothing is put again and every later call of
\* get_line blocks for ever.
C2_EosOnceThenBlocks ==
    \A i \in 1..Len(returned) :
        returned[i].eos =>
            /\ i = Len(returned)
            /\ line_queue = << >>
            /\ ~ ENABLED Caller
            /\ rpc = "done"
            /\ lpc = "done"

\* C2 witness: get_line has returned lines and then the sentinel.
C2_Witness ==
    /\ Len(returned) >= 3
    /\ returned[Len(returned)].eos

\* C3 as claimed: in device mode, after shutdown, the file holds exactly the
\* chunks read from the device, without the greeting.
C3_FileIsDeviceChunks ==
    (dev /\ ShutDown) => f = Flatten(src)

\* C3 amended: in device mode, after shutdown, the file holds the greeting
\* followed by the chunks read from the device, in read order; the greeting is
\* also the first line put into line_queue.
C3_FileIsGreetingAndDeviceChunks ==
    (dev /\ ShutDown) =>
        /\ f = Greet \o Flatten(src)
        /\ lq_hist[1] = Item(Decode(Greet))

\* C3 witness: device mode, shut down, after reads that returned bytes.
C3_Witness ==
    /\ dev
    /\ ShutDown
    /\ Len(Flatten(src)) >= 2

\* C4 as claimed: no line put into line_queue or returned by get_line contains
\* a newline.
C4_NoNewlineInLine ==
    \A h \in {lq_hist, returned} : \A i \in 1..Len(h) :
        \A k \in 1..Len(h[i].data) : h[i].data[k] # NL

\* C4 amended: every line put into line_queue or returned by get_line ends
\* with the newline that terminated it, and holds no other newline.
C4_LineEndsWithItsNewline ==
    \A h \in {lq_hist, returned} : \A i \in 1..Len(h) :
        ~h[i].eos =>
            /\ Len(h[i].data) >= 1
            /\ \A k \in 1..Len(h[i].data) :
                   (h[i].data[k] = NL) <=> (k = Len(h[i].data))

\* C4 witness: get_line has returned a line assembled from several chunks,
\* after another line.
C4_Witness ==
    /\ Len(returned) >= 2
    /\ Len(returned[2].data) >= 3
    /\ Len(deq) >= 4

\* C5: the lines thread takes the chunks out in the order the reader put them,
\* which is the order the source returned them after the greeting; and the
\* lines get_line returns are, in order, the first newline-terminated lines of
\* the source's byte stream, each decoded: none skipped, none twice.
C5_OrderPreserved ==
    /\ IsPrefix(deq, bq_hist)
    /\ Payloads(bq_hist) = IF rpc = "greet" THEN << >> ELSE <<Greet>> \o src
    /\ LET want == SplitLines(SourceStream)
           got == Payloads(returned)
       IN /\ Len(got) <= Len(want)
          /\ \A i \in 1..Len(got) : got[i] = Decode(want[i])

\* C5 witness: get_line has returned three lines while a chunk is still queued.
C5_Witness ==
    /\ Len(Payloads(returned)) >= 3
    /\ byte_queue # << >>

\* C6: in each queue's history the sentinel occurs at most once, as the last
\* item: nothing is put after it.
C6_SentinelLast ==
    \A h \in {bq_hist, lq_hist} : \A i \in 1..Len(h) : h[i].eos => i = Len(h)

\* C6 witness: both queues have had chunks or lines and then the sentinel.
C6_Witness ==
    /\ Len(bq_hist) >= 3 /\ bq_hist[Len(bq_hist)].eos
    /\ Len(lq_hist) >= 3 /\ lq_hist[Len(lq_hist)].eos

\* C7 as claimed: in device mode, with the three threads scheduled fairly, the
\* caller eventually has every line the source's byte stream completed and then
\* the sentinel, and both threads have returned.
C7_EventuallyDrainedAndStopped ==
    dev => <>(/\ ShutDown
              /\ returned[Len(returned)].eos
              /\ Len(Payloads(returned)) = Len(SplitLines(SourceStream)))

\* C7, as far as it holds: in device mode, under the same scheduling, either a
\* write to the file fails and kills the lines thread, or the caller eventually
\* has every completed line and then the sentinel, and both threads have returned.
C7_DrainedAndStoppedUnlessWriteFails ==
    dev => <>(\/ lpc = "crashed"
              \/ /\ ShutDown
                 /\ returned[Len(returned)].eos
                 /\ Len(Payloads(returned)) = Len(SplitLines(SourceStream)))

\* C8: in file mode the sentinel is never in a queue nor returned by get_line,
\* and neither thread ever leaves its loop.
C8_FileModeNeverEnds ==
    ~dev =>
        /\ \A h \in {bq_hist, lq_hist, byte_queue, line_queue, returned, deq} :
               \A i \in 1..Len(h) : ~h[i].eos
        /\ rpc \in {"greet", "loop", "sleep"}
        /\ lpc \in {"get", "scan", "print", "put"}
        /\ cpc = "call"

\* C8 witness: file mode, the whole file replayed and returned line by line,
\* the reader asleep after finding nothing new.
C8_Witness ==
    /\ ~dev
    /\ rpc = "sleep"
    /\ fpos = Len(f)
    /\ Len(returned) >= 3

\* In file mode the chunks read so far are, concatenated, exactly the bytes of
\* the file up to the read position, each put into byte_queue once, after the
\* greeting; unread bytes are read rather than slept on; and the lines get_line
\* has returned are, in order, the first newline-terminated lines of the
\* greeting followed by the file, each decoded.
FileBytesOnceInOrder ==
    ~dev =>
        /\ fpos <= Len(f)
        /\ Flatten(src) = SubSeq(f, 1, fpos)
        /\ Payloads(bq_hist) = IF rpc = "greet" THEN << >> ELSE <<Greet>> \o src
        /\ (rpc = "loop" /\ fpos < Len(f)) => (ENABLED FileRead /\ ~ ENABLED FileReadMiss)
        /\ LET want == SplitLines(Greet \o f)
               got == Payloads(returned)
           IN /\ Len(got) <= Len(want)
              /\ \A i \in 1..Len(got) : got[i] = Decode(want[i])

\* C9: in file mode, however the appends and the polls interleave, the bytes
\* put into byte_queue are always exactly the bytes of the file up to the read
\* position, once each and in file order, and the lines returned are the first
\* lines of the greeting and the file, in order; and, the threads being
\* scheduled fairly, once the other process stops appending every byte of the
\* file ends up read and every newline-terminated line returned by get_line.
C9_FileBytesOnceInOrder ==
    /\ []FileBytesOnceInOrder
    /\ ~dev => <>[](/\ fpos = Len(f)
                    /\ Len(Payloads(returned)) = Len(SplitLines(Greet \o f)))

\* C9 witness: an append ended in the middle of a line, the reader read that
\* part, the rest was appended and read later, and get_line returned the line.
C9_Witness ==
    /\ ~dev
    /\ Len(src) >= 2
    /\ ~IsNewline(src[1][Len(src[1])])
    /\ Len(returned) >= 2
    /\ Len(returned[2].data) >= 2

\* C10: the file's contents change only by a write of the lines thread in
\* device mode, and only by the other process's append in file mode.
C10_FileWriters ==
    [][f' # f => IF dev THEN (LinesWrite \/ LinesWriteFail) ELSE AppendFile]_vars

\* C10 witness: file mode, the lines thread has finished chunks of the file,
\* and the file holds what was appended.
C10_Witness ==
    /\ ~dev
    /\ lpc = "get"
    /\ Len(deq) >= 3
    /\ Len(f) >= 2

----------------------------------------------------------------------------
\* The bytes the for loop of the lines thread has gone through so far: those
\* of the chunks taken out of byte_queue, less the rest of the current chunk.
Consumed ==
    LET all == Flatten(Payloads(deq))
    IN SubSeq(all, 1, Len(all) - Len(bytes))

\* A byte of s that is not ASCII and not part of a well-formed two-byte sequence.
Malformed(s) ==
    \E k \in 1..Len(s) :
        /\ s[k] >= 128
        /\ ~(IsLead2(s[k]) /\ k < Len(s) /\ IsCont(s[k + 1]))
        /\ ~(IsCont(s[k]) /\ k > 1 /\ IsLead2(s[k - 1]))

\* A line has been decoded and is about to be printed or put.
LineInHand == lpc \in {"print", "put"}

\* C11: the lines put into line_queue, with the one in hand, are as many as
\* the newlines gone through, whatever the bytes; each is the decoding of its
\* own newline-terminated run of bytes, and holds U+FFFD exactly when that run
\* has a malformed byte.
C11_OneLinePerNewline ==
    LET runs == SplitLines(Consumed)
        put == Payloads(lq_hist)
        all == IF LineInHand THEN Append(put, line) ELSE put
    IN /\ Len(all) = Cardinality({k \in 1..Len(Consumed) : Consumed[k] = NL})
       /\ Len(all) = Len(runs)
       /\ \A i \in 1..Len(all) :
              /\ all[i] = Decode(runs[i])
              /\ Malformed(runs[i]) <=> (\E k \in 1..Len(all[i]) : all[i][k] = Replacement)

\* C11 witness: a line with a replaced byte has been returned by get_line and
\* the lines thread has gone on to put a later line.
C11_Witness ==
    /\ Len(Payloads(returned)) >= 2
    /\ returned[2].data = <<Replacement, NL>>
    /\ Len(Payloads(lq_hist)) >= 3

\* C12: whenever the sentinel is or has been in line_queue, read_thread has
\* returned, no step of it is possible any more, and the sentinel is the last
\* item ever put into byte_queue.
C12_SentinelAfterReaderStopped ==
    (lpc \in {"putsent", "exit", "done"} \/ \E i \in 1..Len(lq_hist) : lq_hist[i].eos) =>
        /\ rpc = "done"
        /\ ~ ENABLED ReadThread
        /\ bq_hist[Len(bq_hist)].eos

\* C12 witness: the sentinel has been put into line_queue after chunks read
\* from the device, and not yet taken out.
C12_Witness ==
    /\ line_queue # << >>
    /\ line_queue[Len(line_queue)].eos
    /\ Len(src) >= 2

\* C13: whenever get_line has returned the sentinel, lines_thread has returned
\* and no step of it is possible any more.
C13_EosAfterLinesThreadStopped ==
    (\E i \in 1..Len(returned) : returned[i].eos) =>
        /\ lpc = "done"
        /\ ~ ENABLED LinesThread

\* C13 witness: get_line has returned the sentinel while the accumulator still
\* holds a partial line.
C13_Witness ==
    /\ returned # << >>
    /\ returned[Len(returned)].eos
    /\ line # << >>

\* The newline-terminated runs of s, each decoded, as queue items.
DecodedLines(s) ==
    LET runs == SplitLines(s) IN [i \in 1..Len(runs) |-> Item(Decode(runs[i]))]

\* C14: once the lines thread has put the sentinel, line_queue has been given
\* exactly the decoded newline-terminated lines of the chunks taken out and
\* then the sentinel: nothing for the partial line left in the accumulator,
\* which is still there, dropped.
C14_PartialLineDiscarded ==
    lpc \in {"exit", "done"} =>
        /\ lq_hist = Append(DecodedLines(Flatten(Payloads(deq))), Sentinel)
        /\ line = AfterLastNewline(Flatten(Payloads(deq)))

\* C14 witness: the sentinel was taken out while the accumulator held two
\* bytes; two lines and then the sentinel were put.
C14_Witness ==
    /\ lpc = "done"
    /\ Len(line) >= 2
    /\ Len(lq_hist) = 3

\* C15: as long as read_thread has not stopped, its next step can be taken,
\* whatever the queues hold and wherever the other threads are: the greeting, a
\* device read (while the model's bound on reads allows one) or its failure, a
\* file read or miss, the wake-up, the return.
C15_ReaderNeverBlocked ==
    /\ rpc = "greet" => ENABLED ReadGreet
    /\ (dev /\ rpc = "loop") => ENABLED SerialReadError
    /\ (dev /\ rpc = "loop" /\ Len(src) < MaxReads) => ENABLED SerialRead
    /\ (~dev /\ rpc = "loop") => (ENABLED FileRead \/ ENABLED FileReadMiss)
    /\ rpc = "sleep" => ENABLED FileWake
    /\ rpc = "exit" => ENABLED ReadExit

\* C15 witness: the reader is in its loop with three items waiting in
\* byte_queue, the lines thread has taken nothing out and the caller nothing.
C15_Witness ==
    /\ rpc = "loop"
    /\ Len(byte_queue) >= 3
    /\ deq = << >>
    /\ returned = << >>

\* C16: in both modes the first item ever put into byte_queue is the greeting,
\* and the first line put into line_queue, and so the first value get_line
\* returns, is the greeting line.
C16_GreetingFirst ==
    /\ bq_hist # << >> => bq_hist[1] = Item(Greet)
    /\ deq # << >> => deq[1] = Item(Greet)
    /\ lq_hist # << >> => lq_hist[1] = Item(Decode(Greet))
    /\ returned # << >> => returned[1] = Item(Decode(Greet))

\* C16 witness: device mode, the very first read failed, and get_line has
\* returned the greeting line and then the sentinel.
C16_Witness ==
    /\ dev
    /\ src = << >>
    /\ returned = <<Item(Decode(Greet)), Sentinel>>

C18_ScannedBytesAreInFile ==
    dev =>
        /\ IsPrefix(Consumed, f)
        /\ Flatten(Payloads(lq_hist)) \o (IF LineInHand THEN line ELSE Decode(line))
               = Decode(Consumed)
        /\ lpc = "scan" => IsPrefix(Flatten(Payloads(deq)), f)

\* C18 witness: device mode, get_line has returned two lines and the
\* accumulator holds a byte of the next one.
C18_Witness ==
    /\ dev
    /\ Len(returned) >= 2
    /\ lpc = "scan"
    /\ line # << >>

\* The lines the lines thread has printed, in order.
FromLines(x) == x.from = "lines"
Echoed == LET g == SelectSeq(console, FromLines) IN [i \in 1..Len(g) |-> g[i].text]

\* C19: the lines put into line_queue are always the lines printed so far,
\* less the one line that has been printed and is about to be put.
C19_PrintedBeforePut ==
    /\ IsPrefix(Payloads(lq_hist), Echoed)
    /\ Len(Echoed) = Len(Payloads(lq_hist)) + (IF lpc = "put" THEN 1 ELSE 0)
    /\ lpc = "put" => Echoed[Len(Echoed)] = line

\* C19 witness: a second line has been printed and not yet put, while the
\* first is already returned.
C19_Witness ==
    /\ lpc = "put"
    /\ Len(Echoed) = 2
    /\ Len(returned) = 1

\* C20: once a write to the file has failed, the lines thread takes no step
\* any more: no sentinel is or will be in line_queue, the lines put are those
\* of the chunks before the one being written and none of that chunk, get_line
\* has not returned the sentinel and, line_queue once empty, cannot return;
\* read_thread, unless it has stopped, still can take its next step.
C20_WriteFailureLeavesCallerBlocked ==
    lpc = "crashed" =>
        /\ dev
        /\ ~ ENABLED LinesThread
        /\ \A h \in {lq_hist, line_queue, returned} : \A i \in 1..Len(h) : ~h[i].eos
        /\ bytes = deq[Len(deq)].data
        /\ lq_hist = DecodedLines(Consumed)
        /\ cpc = "call"
        /\ line_queue = << >> => ~ ENABLED Caller
        /\ rpc # "done" => ENABLED ReadThread

\* C20 witness: the write of a later chunk failed; the caller has taken out
\* the lines put before and is blocked, and the reader has since put more
\* chunks, which stay in byte_queue.
C20_Witness ==
    /\ lpc = "crashed"
    /\ Len(returned) >= 1
    /\ line_queue = << >>
    /\ rpc = "loop"
    /\ Len(byte_queue) >= 2

====
